---- MODULE Spec2Model ----
(***************************************************************************)
(* A model of src/utils/engines.js of the search-by-image extension: the   *)
(* search-task pipeline initSearch, its helpers sendReceipt and            *)
(* showEngineError, and the image adapter prepareImageForUpload.           *)
(*                                                                         *)
(* An action is one synchronous stretch of the code, from the resumption   *)
(* of an await to the next suspension.  The message bus, the storage       *)
(* layer, the conversion engine and searchFn are the environment: what     *)
(* they answer is drawn with \E from small sets.                           *)
(***************************************************************************)
EXTENDS Integers, Sequences, FiniteSets, TLC

\* ------------------------------------------------------------- bounds
MaxRuns == 2            \* initSearch invocations the model holds state for
MaxImageSize == 3       \* image.imageSize ranges over 1..MaxImageSize
MaxLimit == 2           \* getMaxImageUploadSize answers 0 (no limit) .. MaxLimit
MaxSearchReceipts == 2  \* sendReceipt calls one searchFn invocation may make

RunIds == 1..MaxRuns
TaskIds == {"t1", "t2"}
ImageIds == {"i1", "i2"}
Engines == {"pinterest", "bing"}
AssetTypes == {"image", "url"}
Results == {"results1", "results2"}

\* ------------------------------------------------------------- values
\* JavaScript's undefined, as a returned value and as a missing string.
Undefined == "undefined"

\* A message text.  src/ holds neither the message catalog nor
\* getLargeImageMessage: a text is kept as the triple that determines it.
Text(text, engine, maxSize) == [text |-> text, engine |-> engine, maxSize |-> maxSize]
NoMessage == Text(Undefined, "", 0)
EmptyMessage == Text("", "", 0)
Literal(s) == Text(s, "", 0)

\* if (!message): undefined and the empty string are both falsy.
Truthy(message) == message.text \notin {Undefined, ""}

\* getLargeImageMessage(engine, maxSize)
getLargeImageMessage(engine, maxSize) == Text("largeImage", engine, maxSize)

\* browser.i18n.getMessage(errorId, browser.i18n.getMessage(`engineName_${engine}`))
getMessage(errorId, engine) == Text(errorId, engine, 0)

\* An error object: its name and its message.
Err(name, message) == [name |-> name, message |-> message]
NoError == Err("none", NoMessage)
\* class EngineError extends Error
EngineError(message) == Err("EngineError", message)
\* the rejection of a browser.runtime.sendMessage / sendLargeMessage promise
SendError == Err("Error", Literal("send failed"))
\* the errors a searchFn may throw: typed ones (also with an empty message) and others
SearchErrors ==
  { EngineError(Literal("engine says no")), EngineError(EmptyMessage),
    Err("Error", Literal("search failed")) }

\* A task record; search.assetType is the one field of search the code reads.
Task(imageId, assetType) == [imageId |-> imageId, assetType |-> assetType]
NullTask == Task("null", "null")
Tasks == { Task(i, a) : i \in ImageIds, a \in AssetTypes }

\* An image record.
Image(size, dataUrl, blob) ==
  [imageSize |-> size, imageDataUrl |-> dataUrl, imageBlob |-> blob,
   imageFilename |-> "image.png", imageType |-> "image/png"]
NullImage ==
  [imageSize |-> 0, imageDataUrl |-> "null", imageBlob |-> "null",
   imageFilename |-> "null", imageType |-> "null"]
NoBlob == "none"
\* dataUrlToBlob(dataUrl): the blob is determined by the data URL
dataUrlToBlob(dataUrl) == IF dataUrl = "data:original" THEN "blob:original" ELSE "blob:converted"
\* the images storage may answer the image request with (no blob: it came over the bus)
StoredImages == { Image(s, "data:original", NoBlob) : s \in 1..MaxImageSize }

\* ------------------------------------------------------------- trace events
Event(id, by, storageId, storageIds, message, errorId, type, image) ==
  [id |-> id, by |-> by, storageId |-> storageId, storageIds |-> storageIds,
   message |-> message, errorId |-> errorId, type |-> type, image |-> image]
\* {id: 'storageRequest', asyncResponse: true, storageId}
StorageRequest(storageId) ==
  Event("storageRequest", "initSearch", storageId, <<>>, NoMessage, "none", <<>>, NullImage)
\* {id: 'storageReceipt', storageIds: keys}; by names the caller of sendReceipt
StorageReceipt(keys, by) ==
  Event("storageReceipt", by, "none", keys, NoMessage, "none", <<>>, NullImage)
\* {id: 'notification', message, type: `${engine}Error`}; errorId is the catalog key
\* the message was looked up under, "none" when the message was given
Notification(message, errorId, engine) ==
  Event("notification", "initSearch", "none", <<>>, message, errorId, <<engine, "Error">>, NullImage)
\* steps that send nothing, recorded to state orderings
Step(id, image) == Event(id, "initSearch", "none", <<>>, NoMessage, "none", <<>>, image)


\* ------------------------------------------------------------- state
VARIABLES
  runs,          \* the initSearch invocations that exist
  taskId,        \* initSearch's argument taskId, per run
  engine,        \* initSearch's argument engine, per run
  pc,            \* the await each run is suspended at
  task,          \* const task, per run
  storageIds,    \* const storageIds (a mutable array), per run
  image,         \* let image, per run
  maxSize,       \* const maxSize of the run's prepareImageForUpload call
  err,           \* the err of the catch clause, per run
  searchCalls,   \* sendReceipt calls the run's searchFn has made
  searchResult,  \* what searchFn resolved with, per run
  returned,      \* what the run's promise resolved with
  thrown,        \* what the run's promise rejected with
  trace,         \* per run: the messages sent and the steps taken, in order
  prep,          \* a direct call of prepareImageForUpload
  calls,         \* calls of sendReceipt by several callers on one key list
  pin,           \* a call of searchPinterest
  upload         \* a call of uploadCallback

vars ==
  <<runs, taskId, engine, pc, task, storageIds, image, maxSize, err, searchCalls,
    searchResult, returned, thrown, trace, prep, calls, pin, upload>>

\* the state of the initSearch invocations
runVars ==
  <<runs, taskId, engine, pc, task, storageIds, image, maxSize, err, searchCalls,
    searchResult, returned, thrown, trace>>

\* ------------------------------------------------------------- helpers
\* showEngineError's parameter object {message, errorId, engine}
Params(message, errorId, eng) == [message |-> message, errorId |-> errorId, engine |-> eng]

\* what browser.i18n.getMessage raises when the message name is undefined
\* (the call then has no matching signature)
TypeError == Err("TypeError", Literal("invalid message name"))

\* showEngineError({message, errorId, engine}): the outcomes of one call.  A falsy
\* message is looked up in the catalog under errorId.  A lookup under an undefined
\* errorId depends on the browser: it raises, or it answers the catalog's text for
\* no key; both are outcomes.  The notification is sent and not awaited, so its
\* delivery cannot change the caller's control flow.
showEngineError(params) ==
  IF Truthy(params.message)
    THEN { [threw |-> FALSE,
            sent |-> <<Notification(params.message, "none", params.engine)>>] }
    ELSE IF params.errorId = Undefined
      THEN { [threw |-> TRUE, sent |-> <<>>],
             [threw |-> FALSE,
              sent |-> <<Notification(getMessage(Undefined, params.engine),
                                      Undefined, params.engine)>>] }
      ELSE { [threw |-> FALSE,
              sent |-> <<Notification(getMessage(params.errorId, params.engine),
                                      params.errorId, params.engine)>>] }

\* a slip: the expired-session branches report the generic engine error
SessionExpiredParamsGeneric(eng) == Params(NoMessage, "error_engine", eng)

\* showEngineError({errorId: 'error_sessionExpiredEngine', engine})
SessionExpiredParams(eng) == Params(NoMessage, "error_sessionExpiredEngine", eng)

\* a slip: every error is reported as the generic engine error
ClassifyAllGeneric(e, eng) == Params(NoMessage, "error_engine", eng)

\* the catch clause's classification of err into showEngineError's parameters
Classify(e, eng) ==
  IF e.name = "EngineError"
    THEN Params(e.message, Undefined, eng)
    ELSE Params(NoMessage, "error_engine", eng)

\* a slip: the message is sent and the list is left as it was
sendReceiptKeepsList(ids, by) ==
  IF Len(ids) > 0
    THEN [sent |-> <<StorageReceipt(ids, by)>>, storageIds |-> ids]
    ELSE [sent |-> <<>>, storageIds |-> ids]

\* a slip: storageIds.pop() once, without the while loop
sendReceiptPopsOnce(ids, by) ==
  IF Len(ids) > 0
    THEN [sent |-> <<StorageReceipt(ids, by)>>, storageIds |-> SubSeq(ids, 1, Len(ids) - 1)]
    ELSE [sent |-> <<>>, storageIds |-> ids]

\* sendReceipt(storageIds), up to its await: the message it sends, if any, and the
\* list as it leaves it.  by names the caller.
sendReceipt(ids, by) ==
  IF Len(ids) > 0
    THEN [sent |-> <<StorageReceipt(ids, by)>>, storageIds |-> <<>>]
    ELSE [sent |-> <<>>, storageIds |-> ids]

\* const storageIds = [taskId, task.imageId]
NewStorageIds(tid, t) == <<tid, t.imageId>>

\* convertProcessedImage(image, {newType, maxSize, setBlob}): the results the
\* conversion engine may answer with: nothing usable, or an image at or under
\* maxSize (with its blob when setBlob is requested).
convertProcessedImage(img, max, setBlob) ==
  {NullImage} \cup
  { Image(s, "data:converted",
          IF setBlob THEN dataUrlToBlob("data:converted") ELSE NoBlob) : s \in 1..max }

\* a slip: image.imageSize >= maxSize, an image exactly at the limit is converted
NeedsConversionAtLimit(img, max) == max # 0 /\ img.imageSize >= max

\* prepareImageForUpload takes the conversion path
NeedsConversion(img, max) == max # 0 /\ img.imageSize > max

\* a slip: the conversion's result is returned without the if (!image) test
prepareImageForUploadUnchecked(img, eng, max, conv, setBlob) ==
  IF max # 0
    THEN IF img.imageSize > max
      THEN [threw |-> FALSE, err |-> NoError, image |-> conv]
      ELSE IF setBlob
        THEN [threw |-> FALSE, err |-> NoError,
              image |-> [img EXCEPT !.imageBlob = dataUrlToBlob(img.imageDataUrl)]]
        ELSE [threw |-> FALSE, err |-> NoError, image |-> img]
    ELSE [threw |-> FALSE, err |-> NoError, image |-> img]

\* prepareImageForUpload({image, engine, target, newType, setBlob}), given what
\* getMaxImageUploadSize answered (max) and what convertProcessedImage answered
\* (conv, read only on the conversion path).
prepareImageForUpload(img, eng, max, conv, setBlob) ==
  IF max # 0
    THEN IF img.imageSize > max
      THEN IF conv = NullImage
        THEN [threw |-> TRUE, err |-> EngineError(getLargeImageMessage(eng, max)),
              image |-> NullImage]
        ELSE [threw |-> FALSE, err |-> NoError, image |-> conv]
      ELSE IF setBlob
        THEN [threw |-> FALSE, err |-> NoError,
              image |-> [img EXCEPT !.imageBlob = dataUrlToBlob(img.imageDataUrl)]]
        ELSE [threw |-> FALSE, err |-> NoError, image |-> img]
    ELSE [threw |-> FALSE, err |-> NoError, image |-> img]

\* a change: return await searchFn(...)
ReturnSearchResult(searchFnResult) == searchFnResult

\* what initSearch's promise resolves with: the function has no return statement
InitSearchReturnValue(searchFnResult) == Undefined

\* ------------------------------------------------------------- initSearch
\* a slip: storageIds is one list of the module, shared by the invocations
UpdateSharedList(r, newpc, tr, ids, e, ret, thr) ==
  /\ pc' = [pc EXCEPT ![r] = newpc]
  /\ trace' = [trace EXCEPT ![r] = tr]
  /\ storageIds' = [q \in RunIds |-> ids]
  /\ err' = [err EXCEPT ![r] = e]
  /\ returned' = [returned EXCEPT ![r] = ret]
  /\ thrown' = [thrown EXCEPT ![r] = thr]

\* one run's variables after a step; the rest of the run's state is set by the action
Update(r, newpc, tr, ids, e, ret, thr) ==
  /\ pc' = [pc EXCEPT ![r] = newpc]
  /\ trace' = [trace EXCEPT ![r] = tr]
  /\ storageIds' = [storageIds EXCEPT ![r] = ids]
  /\ err' = [err EXCEPT ![r] = e]
  /\ returned' = [returned EXCEPT ![r] = ret]
  /\ thrown' = [thrown EXCEPT ![r] = thr]

\* the catch clause after its sendReceipt: classify, notify, log, throw err.  An
\* error raised by showEngineError itself leaves the clause in place of err.
CatchNotify(r, e, tr, ids) ==
  \E o \in showEngineError(Classify(e, engine[r])) :
    Update(r, "done", tr \o o.sent, ids, e, returned[r],
           IF o.threw THEN TypeError ELSE e)

\* catch (err) { await sendReceipt(storageIds); ...
Catch(r, e, tr, ids) ==
  LET sr == sendReceipt(ids, "initSearch") IN
    IF sr.sent # <<>>
      THEN Update(r, "catchReceiptAwait", tr \o sr.sent, sr.storageIds, e,
                  returned[r], thrown[r])
      ELSE CatchNotify(r, e, tr, sr.storageIds)

\* showEngineError({errorId: 'error_sessionExpiredEngine', engine}), then the
\* function ends without a value
SessionExpired(r, tr, ids) ==
  \E o \in showEngineError(SessionExpiredParams(engine[r])) :
    Update(r, "done", tr \o o.sent, ids, err[r],
           InitSearchReturnValue(searchResult[r]), thrown[r])

\* a slip: searchFn is handed the image as the image request returned it
InvokeSearchWithStoredImage(r, img, tr) ==
  LET stored == tr[CHOOSE i \in DOMAIN tr : tr[i].id = "imageReturned"].image IN
    /\ image' = [image EXCEPT ![r] = stored]
    /\ Update(r, "search", Append(tr, Step("searchFn", stored)), storageIds[r], err[r],
              returned[r], thrown[r])

\* await searchFn({session, search, image, storageIds}) is entered
InvokeSearch(r, img, tr) ==
  /\ image' = [image EXCEPT ![r] = img]
  /\ Update(r, "search", Append(tr, Step("searchFn", img)), storageIds[r], err[r],
            returned[r], thrown[r])

\* await waitForDocumentLoad() resolves; the task request is sent
WaitForDocumentLoad(r) ==
  /\ pc[r] = "start"
  /\ Update(r, "taskAwait",
            trace[r] \o <<Step("documentLoaded", NullImage), StorageRequest(taskId[r])>>,
            storageIds[r], err[r], returned[r], thrown[r])
  /\ UNCHANGED <<runs, taskId, engine, task, image, maxSize, searchCalls, searchResult, prep, calls, pin, upload>>

\* a slip: the receipt is sent as soon as the task is read, with the image request
TaskPresentEagerReceipt(r) ==
  /\ pc[r] = "taskAwait"
  /\ \E t \in Tasks :
       LET sr == sendReceipt(NewStorageIds(taskId[r], t), "initSearch") IN
         /\ task' = [task EXCEPT ![r] = t]
         /\ Update(r, "imageAwait",
                   (trace[r] \o <<Step("taskReturned", NullImage)>> \o sr.sent)
                     \o <<StorageRequest(t.imageId)>>,
                   sr.storageIds, err[r], returned[r], thrown[r])
  /\ UNCHANGED <<runs, taskId, engine, image, maxSize, searchCalls, searchResult, prep, calls, pin, upload>>

\* the task request resolves with a task: the key list is made and the image
\* request is sent
TaskPresent(r) ==
  /\ pc[r] = "taskAwait"
  /\ \E t \in Tasks :
       /\ task' = [task EXCEPT ![r] = t]
       /\ Update(r, "imageAwait",
                 trace[r] \o <<Step("taskReturned", NullImage), StorageRequest(t.imageId)>>,
                 NewStorageIds(taskId[r], t), err[r], returned[r], thrown[r])
  /\ UNCHANGED <<runs, taskId, engine, image, maxSize, searchCalls, searchResult, prep, calls, pin, upload>>

\* the task request resolves with nothing: the else branch of if (task)
TaskAbsent(r) ==
  /\ pc[r] = "taskAwait"
  /\ task' = [task EXCEPT ![r] = NullTask]
  /\ SessionExpired(r, Append(trace[r], Step("taskAbsent", NullImage)), storageIds[r])
  /\ UNCHANGED <<runs, taskId, engine, image, maxSize, searchCalls, searchResult, prep, calls, pin, upload>>

\* the task request rejects: it is awaited outside the try statement
TaskRequestFails(r) ==
  /\ pc[r] = "taskAwait"
  /\ Update(r, "done", Append(trace[r], Step("taskRequestFailed", NullImage)),
            storageIds[r], err[r], returned[r], SendError)
  /\ UNCHANGED <<runs, taskId, engine, task, image, maxSize, searchCalls, searchResult, prep, calls, pin, upload>>

\* the image request resolves with an image: adapt it when the asset type is
\* 'image' (up to the await of the conversion), then call searchFn
ImagePresent(r) ==
  /\ pc[r] = "imageAwait"
  /\ \E img \in StoredImages :
       LET tr == Append(trace[r], Step("imageReturned", img)) IN
         IF task[r].assetType = "image"
           THEN \E max \in 0..MaxLimit :
                  /\ maxSize' = [maxSize EXCEPT ![r] = max]
                  /\ LET tr2 == Append(tr, Step("prepareImageForUpload", img)) IN
                       IF NeedsConversion(img, max)
                         THEN /\ image' = [image EXCEPT ![r] = img]
                              /\ Update(r, "convertAwait",
                                        Append(tr2, Step("convertProcessedImage", img)),
                                        storageIds[r], err[r], returned[r], thrown[r])
                         ELSE InvokeSearch(r,
                                prepareImageForUpload(img, engine[r], max, NullImage, TRUE).image,
                                tr2)
           ELSE /\ maxSize' = maxSize
                /\ InvokeSearch(r, img, tr)
  /\ UNCHANGED <<runs, taskId, engine, task, searchCalls, searchResult, prep, calls, pin, upload>>

\* a slip: the image-absent branch notifies without sending the receipt
ImageAbsentNoReceipt(r) ==
  /\ pc[r] = "imageAwait"
  /\ SessionExpired(r, Append(trace[r], Step("imageAbsent", NullImage)), storageIds[r])
  /\ UNCHANGED <<runs, taskId, engine, task, image, maxSize, searchCalls, searchResult, prep, calls, pin, upload>>

\* the image request resolves with nothing: await sendReceipt(storageIds)
ImageAbsent(r) ==
  /\ pc[r] = "imageAwait"
  /\ LET sr == sendReceipt(storageIds[r], "initSearch")
         tr == Append(trace[r], Step("imageAbsent", NullImage))
     IN
       IF sr.sent # <<>>
         THEN Update(r, "expiredReceiptAwait", tr \o sr.sent, sr.storageIds,
                     err[r], returned[r], thrown[r])
         ELSE SessionExpired(r, tr, sr.storageIds)
  /\ UNCHANGED <<runs, taskId, engine, task, image, maxSize, searchCalls, searchResult, prep, calls, pin, upload>>

\* the image request rejects
ImageRequestFails(r) ==
  /\ pc[r] = "imageAwait"
  /\ Catch(r, SendError, Append(trace[r], Step("imageRequestFailed", NullImage)),
           storageIds[r])
  /\ UNCHANGED <<runs, taskId, engine, task, image, maxSize, searchCalls, searchResult, prep, calls, pin, upload>>

\* convertProcessedImage settles inside prepareImageForUpload
ConvertSettled(r) ==
  /\ pc[r] = "convertAwait"
  /\ \E conv \in convertProcessedImage(image[r], maxSize[r], TRUE) :
       LET res == prepareImageForUpload(image[r], engine[r], maxSize[r], conv, TRUE) IN
         IF res.threw
           THEN /\ image' = image
                /\ Catch(r, res.err, trace[r], storageIds[r])
           ELSE InvokeSearch(r, res.image, trace[r])
  /\ UNCHANGED <<runs, taskId, engine, task, maxSize, searchCalls, searchResult, prep, calls, pin, upload>>

\* the receipt sent on the image-absent path is delivered
ExpiredReceiptSettled(r) ==
  /\ pc[r] = "expiredReceiptAwait"
  /\ SessionExpired(r, trace[r], storageIds[r])
  /\ UNCHANGED <<runs, taskId, engine, task, image, maxSize, searchCalls, searchResult, prep, calls, pin, upload>>

\* the receipt sent on the image-absent path is rejected, inside the try statement
ExpiredReceiptFails(r) ==
  /\ pc[r] = "expiredReceiptAwait"
  /\ Catch(r, SendError, trace[r], storageIds[r])
  /\ UNCHANGED <<runs, taskId, engine, task, image, maxSize, searchCalls, searchResult, prep, calls, pin, upload>>

\* the catch clause's receipt is delivered
CatchReceiptSettled(r) ==
  /\ pc[r] = "catchReceiptAwait"
  /\ CatchNotify(r, err[r], trace[r], storageIds[r])
  /\ UNCHANGED <<runs, taskId, engine, task, image, maxSize, searchCalls, searchResult, prep, calls, pin, upload>>

\* the catch clause's receipt is rejected: the rejection leaves the catch clause
CatchReceiptFails(r) ==
  /\ pc[r] = "catchReceiptAwait"
  /\ Update(r, "done", trace[r], storageIds[r], err[r], returned[r], SendError)
  /\ UNCHANGED <<runs, taskId, engine, task, image, maxSize, searchCalls, searchResult, prep, calls, pin, upload>>

\* ------------------------------------------------------------- searchFn
\* searchFn is the caller's: it is handed the key list and may call
\* sendReceipt(storageIds) on it, awaiting the send, before it resolves or throws.
SearchFnSendReceipt(r) ==
  /\ pc[r] = "search"
  /\ searchCalls[r] < MaxSearchReceipts
  /\ searchCalls' = [searchCalls EXCEPT ![r] = @ + 1]
  /\ LET sr == sendReceipt(storageIds[r], "searchFn") IN
       Update(r, IF sr.sent # <<>> THEN "searchReceiptAwait" ELSE "search",
              trace[r] \o sr.sent, sr.storageIds, err[r], returned[r], thrown[r])
  /\ UNCHANGED <<runs, taskId, engine, task, image, maxSize, searchResult, prep, calls, pin, upload>>

\* searchFn's receipt is delivered
SearchReceiptSettled(r) ==
  /\ pc[r] = "searchReceiptAwait"
  /\ Update(r, "search", trace[r], storageIds[r], err[r], returned[r], thrown[r])
  /\ UNCHANGED <<runs, taskId, engine, task, image, maxSize, searchCalls, searchResult, prep, calls, pin, upload>>

\* searchFn's receipt is rejected and searchFn throws the rejection
SearchReceiptFails(r) ==
  /\ pc[r] = "searchReceiptAwait"
  /\ Catch(r, SendError, trace[r], storageIds[r])
  /\ UNCHANGED <<runs, taskId, engine, task, image, maxSize, searchCalls, searchResult, prep, calls, pin, upload>>

\* a change: initSearch sends the receipt after searchFn resolved
SearchFnResolvesThenReceipt(r) ==
  /\ pc[r] = "search"
  /\ \E res \in Results :
       LET sr == sendReceipt(storageIds[r], "initSearch") IN
         /\ searchResult' = [searchResult EXCEPT ![r] = res]
         /\ Update(r, "done",
                   Append(trace[r], Step("searchFnResolved", NullImage)) \o sr.sent,
                   sr.storageIds, err[r], InitSearchReturnValue(res), thrown[r])
  /\ UNCHANGED <<runs, taskId, engine, task, image, maxSize, searchCalls, prep, calls, pin, upload>>

\* searchFn resolves with results; initSearch's try statement and function end
SearchFnResolves(r) ==
  /\ pc[r] = "search"
  /\ \E res \in Results :
       /\ searchResult' = [searchResult EXCEPT ![r] = res]
       /\ Update(r, "done", Append(trace[r], Step("searchFnResolved", NullImage)),
                 storageIds[r], err[r], InitSearchReturnValue(res), thrown[r])
  /\ UNCHANGED <<runs, taskId, engine, task, image, maxSize, searchCalls, prep, calls, pin, upload>>

\* searchFn throws
SearchFnThrows(r) ==
  /\ pc[r] = "search"
  /\ \E e \in SearchErrors : Catch(r, e, trace[r], storageIds[r])
  /\ UNCHANGED <<runs, taskId, engine, task, image, maxSize, searchCalls, searchResult, prep, calls, pin, upload>>

\* ------------------------------------------------------------- specification
NotReturned == "pending"
PrepIdle ==
  [stage |-> "idle", image |-> NullImage, engine |-> "none", maxSize |-> 0,
   setBlob |-> FALSE, converted |-> FALSE, conv |-> NullImage, threw |-> FALSE,
   err |-> NoError, result |-> NullImage]

InitRuns(active) ==
  /\ runs = active
  /\ taskId \in [RunIds -> TaskIds]
  /\ engine \in [RunIds -> Engines]
  /\ \A r \in RunIds \ active : taskId[r] = "t1" /\ engine[r] = "pinterest"
  /\ pc = [r \in RunIds |-> IF r \in active THEN "start" ELSE "idle"]
  /\ task = [r \in RunIds |-> NullTask]
  /\ storageIds = [r \in RunIds |-> <<>>]
  /\ image = [r \in RunIds |-> NullImage]
  /\ maxSize = [r \in RunIds |-> 0]
  /\ err = [r \in RunIds |-> NoError]
  /\ searchCalls = [r \in RunIds |-> 0]
  /\ searchResult = [r \in RunIds |-> NotReturned]
  /\ returned = [r \in RunIds |-> NotReturned]
  /\ thrown = [r \in RunIds |-> NoError]
  /\ trace = [r \in RunIds |-> <<>>]

\* no sendReceipt call outside initSearch and searchFn
CallsIdle ==
  [list |-> <<>>, initial |-> <<>>, sent |-> <<>>, awaiting |-> {}, made |-> 0,
   failed |-> FALSE, log |-> <<>>]

\* searchPinterest is not called
PinIdle ==
  [stage |-> "idle", request |-> <<>>, responded |-> FALSE, httpStatus |-> 0,
   parsed |-> FALSE, body |-> [status |-> "none", hasData |-> FALSE, data |-> <<>>],
   threw |-> FALSE, err |-> NoError, results |-> <<>>]

\* uploadCallback is not called
UploadIdle ==
  [stage |-> "idle", engine |-> "none", xhr |-> [status |-> 0, responseText |-> ""],
   behaviour |-> NoError, args |-> <<>>, sent |-> <<>>, thrown |-> NoError]

\* one invocation initSearch(searchFn, engine, taskId)
Init ==
  /\ InitRuns({1})
  /\ prep = PrepIdle /\ calls = CallsIdle /\ pin = PinIdle /\ upload = UploadIdle

Next ==
  \/ \E r \in runs : WaitForDocumentLoad(r)
  \/ \E r \in runs : TaskPresent(r)
  \/ \E r \in runs : TaskAbsent(r)
  \/ \E r \in runs : TaskRequestFails(r)
  \/ \E r \in runs : ImagePresent(r)
  \/ \E r \in runs : ImageAbsent(r)
  \/ \E r \in runs : ImageRequestFails(r)
  \/ \E r \in runs : ConvertSettled(r)
  \/ \E r \in runs : ExpiredReceiptSettled(r)
  \/ \E r \in runs : ExpiredReceiptFails(r)
  \/ \E r \in runs : CatchReceiptFails(r)
  \/ \E r \in runs : CatchReceiptSettled(r)
  \/ \E r \in runs : SearchFnSendReceipt(r)
  \/ \E r \in runs : SearchReceiptSettled(r)
  \/ \E r \in runs : SearchReceiptFails(r)
  \/ \E r \in runs : SearchFnResolves(r)
  \/ \E r \in runs : SearchFnThrows(r)

Spec == Init /\ [][Next]_vars

\* every awaited collaborator call eventually resolves or rejects
SpecFair == Init /\ [][Next]_vars /\ WF_vars(Next)

\* ------------------------------------------------------------- prepareImageForUpload, called directly
\* the images a caller may pass: with or without a materialized blob
PrepImages ==
  { Image(s, "data:original", b) : s \in 1..MaxImageSize, b \in {NoBlob, "blob:original"} }

\* a call prepareImageForUpload({image, engine, setBlob}) whose
\* getMaxImageUploadSize answers maxSize
InitPrep ==
  /\ InitRuns({})
  /\ calls = CallsIdle /\ pin = PinIdle /\ upload = UploadIdle
  /\ \E img \in PrepImages, eng \in Engines, max \in 0..MaxLimit, sb \in BOOLEAN :
       prep = [PrepIdle EXCEPT !.stage = "called", !.image = img, !.engine = eng,
                               !.maxSize = max, !.setBlob = sb]

\* the call runs to its await of convertProcessedImage
PrepAwaitConvert ==
  /\ prep.stage = "called"
  /\ NeedsConversion(prep.image, prep.maxSize)
  /\ prep' = [prep EXCEPT !.stage = "converting", !.converted = TRUE]
  /\ UNCHANGED <<runs, taskId, engine, pc, task, storageIds, image, maxSize, err,
                 searchCalls, searchResult, returned, thrown, trace, calls, pin, upload>>

\* the call returns without converting
PrepReturn ==
  /\ prep.stage = "called"
  /\ ~NeedsConversion(prep.image, prep.maxSize)
  /\ LET res == prepareImageForUpload(prep.image, prep.engine, prep.maxSize,
                                      NullImage, prep.setBlob) IN
       prep' = [prep EXCEPT !.stage = IF res.threw THEN "thrown" ELSE "returned",
                            !.threw = res.threw, !.err = res.err, !.result = res.image]
  /\ UNCHANGED <<runs, taskId, engine, pc, task, storageIds, image, maxSize, err,
                 searchCalls, searchResult, returned, thrown, trace, calls, pin, upload>>

\* convertProcessedImage settles and the call returns or throws
PrepConvertSettled ==
  /\ prep.stage = "converting"
  /\ \E conv \in convertProcessedImage(prep.image, prep.maxSize, prep.setBlob) :
       LET res == prepareImageForUpload(prep.image, prep.engine, prep.maxSize,
                                        conv, prep.setBlob) IN
         prep' = [prep EXCEPT !.stage = IF res.threw THEN "thrown" ELSE "returned",
                              !.conv = conv, !.threw = res.threw, !.err = res.err,
                              !.result = res.image]
  /\ UNCHANGED <<runs, taskId, engine, pc, task, storageIds, image, maxSize, err,
                 searchCalls, searchResult, returned, thrown, trace, calls, pin, upload>>

NextPrep ==
  \/ PrepAwaitConvert
  \/ PrepReturn
  \/ PrepConvertSettled

SpecPrep == InitPrep /\ [][NextPrep]_vars

\* ------------------------------------------------------------- sendReceipt, called on one list
MaxReceiptCalls == 4    \* sendReceipt calls made on the one list

\* those who hold the key list: initSearch, and the searchFn it was handed to
Callers == {"initSearch", "searchFn"}

\* a key list, empty or [taskId, imageId], and no call made yet
InitReceipt ==
  /\ InitRuns({})
  /\ prep = PrepIdle /\ pin = PinIdle /\ upload = UploadIdle
  /\ \E ids \in {<<>>} \cup { NewStorageIds(t, Task(i, "image")) : t \in TaskIds, i \in ImageIds } :
       calls = [CallsIdle EXCEPT !.list = ids, !.initial = ids]

\* a caller that is not awaiting a send calls sendReceipt(storageIds): the call
\* runs to its await, or returns at once when it sends nothing
CallSendReceipt(c) ==
  /\ c \notin calls.awaiting
  /\ calls.made < MaxReceiptCalls
  /\ LET sr == sendReceipt(calls.list, c) IN
       calls' = [calls EXCEPT
                   !.list = sr.storageIds,
                   !.sent = @ \o sr.sent,
                   !.awaiting = IF sr.sent # <<>> THEN @ \cup {c} ELSE @,
                   !.made = @ + 1,
                   !.log = Append(@, [by |-> c, sent |-> sr.sent # <<>>,
                                      inFlight |-> calls.awaiting # {},
                                      afterFailure |-> calls.failed])]
  /\ UNCHANGED <<runVars, prep, pin, upload>>

\* the awaited browser.runtime.sendMessage resolves
ReceiptDelivered(c) ==
  /\ c \in calls.awaiting
  /\ calls' = [calls EXCEPT !.awaiting = @ \ {c}]
  /\ UNCHANGED <<runVars, prep, pin, upload>>

\* the awaited browser.runtime.sendMessage rejects
ReceiptRejected(c) ==
  /\ c \in calls.awaiting
  /\ calls' = [calls EXCEPT !.awaiting = @ \ {c}, !.failed = TRUE]
  /\ UNCHANGED <<runVars, prep, pin, upload>>

NextReceipt ==
  \/ \E c \in Callers : CallSendReceipt(c)
  \/ \E c \in Callers : ReceiptDelivered(c)
  \/ \E c \in Callers : ReceiptRejected(c)

SpecReceipt == InitReceipt /\ [][NextReceipt]_vars

\* ------------------------------------------------------------- searchPinterest
MaxPins == 3     \* the items the service knows: ids 1..MaxPins
MaxData == 3     \* response.data holds at most MaxData items

\* an item of response.data
PinItem(n) == [id |-> n, image_large_url |-> <<"large", n>>, description |-> <<"about", n>>]
PinItems == { PinItem(n) : n \in 1..MaxPins }

\* the arrays of items of length 0..MaxData
PinData == UNION { [1..n -> PinItems] : n \in 0..MaxData }

\* a parsed response body: status, and data when the body has that field
PinBody(status, hasData, data) == [status |-> status, hasData |-> hasData, data |-> data]
PinBodies ==
  { PinBody(st, TRUE, d) : st \in {"success", "error"}, d \in PinData } \cup
  { PinBody(st, FALSE, <<>>) : st \in {"success", "error"} }

\* what fetch rejects with, and what rsp.json() rejects with on a body that is not JSON
FetchError == Err("TypeError", Literal("Failed to fetch"))
JsonError == Err("SyntaxError", Literal("JSON.parse: unexpected character"))

\* data.append('image', image.imageBlob, image.imageFilename) and the fixed fields
PinFormData(img) ==
  [image |-> <<img.imageBlob, img.imageFilename>>, x |-> "0", y |-> "0", w |-> "1",
   h |-> "1", base_scheme |-> "https"]

\* a slip: the body's status field is not tested
PinCheckIgnoresBodyStatus(httpStatus, body) ==
  \/ httpStatus # 200
  \/ ~body.hasData
  \/ Len(body.data) = 0

\* rsp.status !== 200 || response.status !== 'success' || !response.data ||
\* !response.data.length
PinCheckFails(httpStatus, body) ==
  \/ httpStatus # 200
  \/ body.status # "success"
  \/ ~body.hasData
  \/ Len(body.data) = 0

\* item => ({page: `https://pinterest.com/pin/${item.id}/`, image: item.image_large_url,
\*           text: item.description})
PinResult(item) ==
  [page |-> <<"https://pinterest.com/pin/", item.id, "/">>,
   image |-> item.image_large_url, text |-> item.description]

\* response.data.map(...)
PinResults(data) == [i \in DOMAIN data |-> PinResult(data[i])]

\* searchPinterest({session, search, image}) is called with an image that holds its
\* blob, and runs to its await of fetch
InitPinterest ==
  /\ InitRuns({})
  /\ prep = PrepIdle /\ calls = CallsIdle /\ upload = UploadIdle
  /\ \E s \in 1..MaxImageSize, d \in {"data:original", "data:converted"} :
       pin = [PinIdle EXCEPT !.stage = "fetching",
                             !.request = PinFormData(Image(s, d, dataUrlToBlob(d)))]

\* fetch resolves with a response; rsp.json() is awaited
PinFetchResolves ==
  /\ pin.stage = "fetching"
  /\ \E st \in {200, 500} :
       pin' = [pin EXCEPT !.stage = "parsing", !.responded = TRUE, !.httpStatus = st]
  /\ UNCHANGED <<runVars, prep, calls, upload>>

\* fetch rejects
PinFetchFails ==
  /\ pin.stage = "fetching"
  /\ pin' = [pin EXCEPT !.stage = "thrown", !.threw = TRUE, !.err = FetchError]
  /\ UNCHANGED <<runVars, prep, calls, upload>>

\* rsp.json() resolves with the parsed body: the test, then the map
PinJsonResolves ==
  /\ pin.stage = "parsing"
  /\ \E body \in PinBodies :
       IF PinCheckFails(pin.httpStatus, body)
         THEN pin' = [pin EXCEPT !.stage = "thrown", !.parsed = TRUE, !.body = body,
                                 !.threw = TRUE,
                                 !.err = Err("Error", Literal("search failed"))]
         ELSE pin' = [pin EXCEPT !.stage = "returned", !.parsed = TRUE, !.body = body,
                                 !.results = PinResults(body.data)]
  /\ UNCHANGED <<runVars, prep, calls, upload>>

\* rsp.json() rejects: the body is not JSON
PinJsonFails ==
  /\ pin.stage = "parsing"
  /\ pin' = [pin EXCEPT !.stage = "thrown", !.threw = TRUE, !.err = JsonError]
  /\ UNCHANGED <<runVars, prep, calls, upload>>

NextPinterest ==
  \/ PinFetchResolves
  \/ PinFetchFails
  \/ PinJsonResolves
  \/ PinJsonFails

SpecPinterest == InitPinterest /\ [][NextPinterest]_vars

\* ------------------------------------------------------------- initSearch, two at a time
\* two invocations for different tasks (two tabs), interleaved at their awaits
ConcRuns == {1, 2}

InitConc ==
  /\ InitRuns(ConcRuns)
  /\ taskId[1] = "t1" /\ taskId[2] = "t2"
  /\ prep = PrepIdle /\ calls = CallsIdle /\ pin = PinIdle /\ upload = UploadIdle

\* the answers the environment gives run r here: one stored image (the largest), a
\* limit of 0 or 1, one result; tasks, errors and rejections are not restricted
ConcAnswers(r) ==
  /\ \A i \in DOMAIN trace[r] :
       trace[r][i].id = "imageReturned" => trace[r][i].image.imageSize = MaxImageSize
  /\ maxSize[r] \in {0, 1}
  /\ searchResult[r] \in {NotReturned, "results1"}

NextConc ==
  \/ \E r \in runs : WaitForDocumentLoad(r)
  \/ \E r \in runs : TaskPresent(r)
  \/ \E r \in runs : TaskAbsent(r)
  \/ \E r \in runs : TaskRequestFails(r)
  \/ \E r \in runs : ImagePresent(r) /\ ConcAnswers(r)'
  \/ \E r \in runs : ImageAbsent(r)
  \/ \E r \in runs : ImageRequestFails(r)
  \/ \E r \in runs : ConvertSettled(r)
  \/ \E r \in runs : ExpiredReceiptSettled(r)
  \/ \E r \in runs : ExpiredReceiptFails(r)
  \/ \E r \in runs : CatchReceiptFails(r)
  \/ \E r \in runs : CatchReceiptSettled(r)
  \/ \E r \in runs : SearchFnSendReceipt(r)
  \/ \E r \in runs : SearchReceiptSettled(r)
  \/ \E r \in runs : SearchReceiptFails(r)
  \/ \E r \in runs : SearchFnResolves(r) /\ ConcAnswers(r)'
  \/ \E r \in runs : SearchFnThrows(r)

SpecConc == InitConc /\ [][NextConc]_vars

\* ------------------------------------------------------------- uploadCallback
\* the xhr objects an upload may end with
Xhrs == [status : {200, 413, 500}, responseText : {"<html>", "{}", ""}]

\* what the callback may throw: the errors of a search, or an error of its own code
CallbackErrors == SearchErrors \cup {TypeError}

\* a slip: the catch clause classifies the error as initSearch does
UploadCatchParamsClassified(e, eng) == Classify(e, eng)

\* the catch clause's showEngineError({errorId: 'error_engine', engine})
UploadCatchParams(e, eng) == Params(NoMessage, "error_engine", eng)

\* uploadCallback(xhr, callback, engine) is called
InitUpload ==
  /\ InitRuns({})
  /\ prep = PrepIdle /\ calls = CallsIdle /\ pin = PinIdle
  /\ \E x \in Xhrs, eng \in Engines :
       upload = [UploadIdle EXCEPT !.stage = "called", !.xhr = x, !.engine = eng]

\* try { callback(xhr): the callback is entered
UploadInvokeCallback ==
  /\ upload.stage = "called"
  /\ upload' = [upload EXCEPT !.stage = "callback", !.args = Append(@, upload.xhr)]
  /\ UNCHANGED <<runVars, prep, calls, pin>>

\* the callback returns: uploadCallback returns
UploadCallbackReturns ==
  /\ upload.stage = "callback"
  /\ upload' = [upload EXCEPT !.stage = "returned"]
  /\ UNCHANGED <<runVars, prep, calls, pin>>

\* the callback throws: catch (err) { showEngineError(...); console.log(...); throw err }
UploadCallbackThrows ==
  /\ upload.stage = "callback"
  /\ \E e \in CallbackErrors :
       \E o \in showEngineError(UploadCatchParams(e, upload.engine)) :
         upload' = [upload EXCEPT !.stage = "thrown", !.behaviour = e,
                                  !.sent = @ \o o.sent,
                                  !.thrown = IF o.threw THEN TypeError ELSE e]
  /\ UNCHANGED <<runVars, prep, calls, pin>>

NextUpload ==
  \/ UploadInvokeCallback
  \/ UploadCallbackReturns
  \/ UploadCallbackThrows

SpecUpload == InitUpload /\ [][NextUpload]_vars

\* ------------------------------------------------------------- reading the trace
Range(seq) == { seq[i] : i \in DOMAIN seq }
Idx(r, id) == { i \in DOMAIN trace[r] : trace[r][i].id = id }
Has(r, id) == Idx(r, id) # {}
Receipts(r) == Idx(r, "storageReceipt")
Notifications(r) == Idx(r, "notification")
Done(r) == pc[r] = "done"
\* the catch clause was entered with an error of the adaptation or of searchFn
AdaptOrSearchThrew(r) == err[r] # NoError /\ Has(r, "imageReturned")

\* ------------------------------------------------------------- C1
\* an error showEngineError reports without a catalog lookup under a missing errorId
Reportable(e) == e.name = "EngineError" => Truthy(e.message)

\* C1 (as claimed): when adaptation or searchFn throws, the run sends the receipt,
\* then emits the notification, then rejects with the very error that was thrown;
\* no notification exists while the receipt send is still awaited.  Stated for the
\* errors whose notification needs no lookup under a missing errorId, so that a
\* violation does not rest on what browser.i18n.getMessage does without a key.
C1_ReceiptNotifyRethrow ==
  \A r \in runs :
    (AdaptOrSearchThrew(r) /\ Reportable(err[r])) =>
      /\ pc[r] = "catchReceiptAwait" => Notifications(r) = {}
      /\ Done(r) =>
           /\ \E i \in Receipts(r) : \E j \in Notifications(r) : i < j
           /\ thrown[r] = err[r]

\* ------------------------------------------------------------- C2
\* C2 (as claimed): a run in which any step raised an error ends with exactly one
\* notification and exactly one receipt sent, and rejects with that error.
C2_EveryErrorNotifiedOnce ==
  \A r \in runs :
    (Done(r) /\ (thrown[r] # NoError \/ err[r] # NoError)) =>
      /\ Cardinality(Notifications(r)) = 1
      /\ Cardinality(Receipts(r)) = 1
      /\ thrown[r] # NoError
      /\ err[r] # NoError => thrown[r] = err[r]

\* ------------------------------------------------------------- C3
\* C3: over all sendReceipt calls on a run's key list, by initSearch and by searchFn,
\* at most one storageReceipt message is sent, its keys are exactly the run's taskId
\* and task.imageId, and the list holds both keys when the image request is sent.
C3_AtMostOneReceipt ==
  \A r \in runs :
    /\ Cardinality(Receipts(r)) <= 1
    /\ \A i \in Receipts(r) :
         /\ trace[r][i].storageIds = <<taskId[r], task[r].imageId>>
         /\ Range(trace[r][i].storageIds) = {taskId[r], task[r].imageId}
    /\ pc[r] = "imageAwait" => storageIds[r] = <<taskId[r], task[r].imageId>>

\* a run in which searchFn called sendReceipt twice and threw, so that the catch
\* clause called it a third time, and one message was sent
C3_Witness ==
  \E r \in runs :
    /\ Done(r) /\ err[r] # NoError /\ searchCalls[r] = 2
    /\ Cardinality(Receipts(r)) = 1
    /\ \E i \in Receipts(r) : trace[r][i].by = "searchFn"

\* ------------------------------------------------------------- C4
\* C4: when the task request answers nothing, the run emits exactly one notification,
\* the session-expired one for its engine, sends no image request, never calls
\* searchFn, and resolves (it does not reject).
C4_TaskAbsent ==
  \A r \in runs :
    Has(r, "taskAbsent") =>
      /\ Done(r) /\ returned[r] # NotReturned /\ thrown[r] = NoError
      /\ Cardinality(Notifications(r)) = 1
      /\ \A i \in Notifications(r) :
           /\ trace[r][i].errorId = "error_sessionExpiredEngine"
           /\ trace[r][i].message = getMessage("error_sessionExpiredEngine", engine[r])
           /\ trace[r][i].type = <<engine[r], "Error">>
      /\ \A i \in Idx(r, "storageRequest") : trace[r][i].storageId = taskId[r]
      /\ Cardinality(Idx(r, "storageRequest")) = 1
      /\ ~Has(r, "searchFn") /\ ~Has(r, "prepareImageForUpload")

C4_Witness ==
  \E r \in runs : Has(r, "taskAbsent") /\ Done(r) /\ Notifications(r) # {}

\* ------------------------------------------------------------- C5
\* C5 (as claimed): when the task is present and the image request answers nothing,
\* the run sends the receipt, then emits exactly one notification, the
\* session-expired one, never adapts nor calls searchFn, and resolves.
C5_ImageAbsentAlwaysExpired ==
  \A r \in runs :
    Has(r, "imageAbsent") =>
      /\ ~Has(r, "searchFn") /\ ~Has(r, "prepareImageForUpload")
      /\ Done(r) =>
           /\ thrown[r] = NoError /\ returned[r] # NotReturned
           /\ Cardinality(Notifications(r)) = 1
           /\ \A j \in Notifications(r) :
                /\ trace[r][j].errorId = "error_sessionExpiredEngine"
                /\ \E i \in Receipts(r) : i < j

\* C5 (amended): on that path the run sends the receipt and never adapts nor calls
\* searchFn; no notification exists while the send is awaited; if the send is
\* delivered the run emits the session-expired notification alone and resolves; if
\* the send is rejected the run emits the generic engine-error notification alone and
\* rejects with the rejection.
C5_ImageAbsent ==
  \A r \in runs :
    Has(r, "imageAbsent") =>
      /\ ~Has(r, "searchFn") /\ ~Has(r, "prepareImageForUpload")
      /\ Cardinality(Receipts(r)) = 1
      /\ \A i \in Receipts(r) :
           /\ trace[r][i].by = "initSearch"
           /\ trace[r][i].storageIds = <<taskId[r], task[r].imageId>>
      /\ pc[r] = "expiredReceiptAwait" => Notifications(r) = {}
      /\ pc[r] \in {"expiredReceiptAwait", "done"}
      /\ Done(r) =>
           /\ Cardinality(Notifications(r)) = 1
           /\ \A j \in Notifications(r) :
                /\ \A i \in Receipts(r) : i < j
                /\ trace[r][j].type = <<engine[r], "Error">>
                /\ trace[r][j].errorId =
                     IF err[r] = NoError THEN "error_sessionExpiredEngine" ELSE "error_engine"
           /\ err[r] \in {NoError, SendError}
           /\ thrown[r] = err[r]
           /\ (returned[r] # NotReturned) = (err[r] = NoError)

C5_Witness ==
  \E r \in runs :
    /\ Has(r, "imageAbsent") /\ Done(r) /\ err[r] = NoError
    /\ Receipts(r) # {} /\ Notifications(r) # {}

\* ------------------------------------------------------------- C6
\* what the catch clause's notification must be for an error it classified, as
\* claimed: the literal message of a typed error, the generic catalog text otherwise
ClassifiedAsClaimed(r, j) ==
  /\ trace[r][j].type = <<engine[r], "Error">>
  /\ \E i \in Receipts(r) : i < j
  /\ IF err[r].name = "EngineError"
       THEN /\ trace[r][j].message = err[r].message
            /\ trace[r][j].errorId = "none"
       ELSE /\ trace[r][j].errorId = "error_engine"
            /\ trace[r][j].message = getMessage("error_engine", engine[r])
            /\ trace[r][j].message # err[r].message

C7_OverLimit ==
  (prep.maxSize # 0 /\ prep.image.imageSize > prep.maxSize) =>
    /\ prep.stage \in {"called", "converting", "returned", "thrown"}
    /\ prep.stage = "returned" =>
         /\ prep.result # NullImage
         /\ prep.result.imageSize <= prep.maxSize
         /\ ~prep.threw
    /\ prep.stage = "thrown" =>
         /\ prep.threw
         /\ prep.err = EngineError(getLargeImageMessage(prep.engine, prep.maxSize))
         /\ prep.conv = NullImage

\* a call over the limit converted and returned; the converted image fits
C7_Witness ==
  /\ prep.stage = "returned" /\ prep.converted
  /\ prep.image.imageSize > prep.maxSize /\ prep.maxSize # 0
  /\ prep.result.imageSize <= prep.maxSize

\* ------------------------------------------------------------- C8
\* C8 (as claimed): when searchFn resolves with results, the run resolves with those
\* results and does nothing after searchFn returned.
C8_ResolvesWithResults ==
  \A r \in runs :
    Has(r, "searchFnResolved") =>
      /\ Done(r) /\ thrown[r] = NoError
      /\ returned[r] = searchResult[r]
      /\ trace[r][Len(trace[r])].id = "searchFnResolved"

\* C8 (amended): when searchFn resolves with results, the run resolves with no value
\* (searchFn's results are dropped) and does nothing after searchFn returned.
C8_ResolvesWithoutValue ==
  \A r \in runs :
    Has(r, "searchFnResolved") =>
      /\ Done(r) /\ thrown[r] = NoError /\ err[r] = NoError
      /\ searchResult[r] \in Results
      /\ returned[r] = Undefined
      /\ trace[r][Len(trace[r])].id = "searchFnResolved"
      /\ Notifications(r) = {}

C8_Witness ==
  \E r \in runs :
    Has(r, "searchFnResolved") /\ searchResult[r] = "results2" /\ returned[r] = Undefined

\* ------------------------------------------------------------- C9
ImageResponses == {"imageReturned", "imageAbsent", "imageRequestFailed"}

\* C9: no storageReceipt message precedes the image request's answer: every receipt
\* is sent after the image request has returned the record, returned nothing or
\* failed, and never before the record's successful return.
C9_ReceiptAfterImageRead ==
  \A r \in runs :
    \A i \in Receipts(r) :
      /\ \E j \in 1..(i - 1) : trace[r][j].id \in ImageResponses
      /\ \A j \in Idx(r, "imageReturned") : j < i
      /\ \E j \in 1..(i - 1) :
           /\ trace[r][j].id = "storageRequest"
           /\ trace[r][j].storageId = task[r].imageId

\* the image request failed and the receipt was then sent
C9_Witness ==
  \E r \in runs : Has(r, "imageRequestFailed") /\ Receipts(r) # {}

\* ------------------------------------------------------------- C10
\* the receipts initSearch itself sent
OwnReceipts(r) == { i \in Receipts(r) : trace[r][i].by = "initSearch" }

\* what C10 holds of the success and failure paths and of the image-absent path
C10_Common(r) ==
  /\ OwnReceipts(r) # {} => (Has(r, "imageAbsent") \/ err[r] # NoError)
  /\ Has(r, "searchFnResolved") =>
       /\ OwnReceipts(r) = {}
       /\ storageIds[r] =
            IF Receipts(r) = {} THEN <<taskId[r], task[r].imageId>> ELSE <<>>
  /\ Has(r, "imageAbsent") => OwnReceipts(r) # {}

\* C10 (as claimed): initSearch sends a receipt only on the failure path and on the
\* early-return paths; on the success path it sends none and leaves the key list as
\* it is; on both early-return paths, task absent and image absent, it sends one.
C10_ReceiptOnBothEarlyReturns ==
  \A r \in runs :
    /\ C10_Common(r)
    /\ Has(r, "taskAbsent") => OwnReceipts(r) # {}

\* C10 (amended): the same, but on the task-absent path no receipt send is invoked
\* (no key list exists there); only the image-absent early return sends one.
C10_ReceiptPaths ==
  \A r \in runs :
    /\ C10_Common(r)
    /\ Has(r, "taskAbsent") => (Receipts(r) = {} /\ storageIds[r] = <<>>)

\* searchFn resolved without sending the receipt: the list still holds both keys
C10_Witness ==
  \E r \in runs :
    /\ Has(r, "searchFnResolved") /\ Done(r) /\ Receipts(r) = {}
    /\ storageIds[r] = <<taskId[r], task[r].imageId>>

\* ------------------------------------------------------------- C11
\* C11: sendReceipt is idempotent on a key list.  The list is empty whenever a send
\* is awaited; at most one message is ever sent, by the first call and only if the
\* list held keys, carrying those keys; every later call -- also one made while the
\* send is in flight, and one made after the send was rejected -- sends nothing; a
\* call on an empty list sends nothing.
C11_Idempotent ==
  /\ calls.awaiting # {} => calls.list = <<>>
  /\ calls.made > 0 => calls.list = <<>>
  /\ Len(calls.sent) <= 1
  /\ \A i \in DOMAIN calls.sent : calls.sent[i].storageIds = calls.initial
  /\ calls.initial = <<>> => calls.sent = <<>>
  /\ \A k \in DOMAIN calls.log :
       /\ calls.log[k].sent = (k = 1 /\ calls.initial # <<>>)
       /\ (calls.log[k].inFlight \/ calls.log[k].afterFailure) => ~calls.log[k].sent

\* a call made while the first send was in flight and a call made after it was
\* rejected, neither of which sent a message
C11_Witness ==
  /\ Len(calls.sent) = 1
  /\ \E k \in DOMAIN calls.log : calls.log[k].inFlight /\ ~calls.log[k].sent
  /\ \E k \in DOMAIN calls.log : calls.log[k].afterFailure /\ ~calls.log[k].sent

\* ------------------------------------------------------------- C12
\* C12: a call of prepareImageForUpload with a limit configured and an image at or
\* under it (a size equal to the limit included) never calls the conversion and
\* returns the image with its data URL, file name, type and size as passed; its blob
\* is the one made from its data URL when setBlob is requested, and with setBlob
\* false the image is returned exactly as passed.
C12_AtOrUnderLimit ==
  (prep.maxSize # 0 /\ prep.image.imageSize <= prep.maxSize) =>
    /\ ~prep.converted
    /\ prep.stage \in {"called", "returned"}
    /\ prep.stage = "returned" =>
         /\ ~prep.threw
         /\ prep.result.imageDataUrl = prep.image.imageDataUrl
         /\ prep.result.imageFilename = prep.image.imageFilename
         /\ prep.result.imageType = prep.image.imageType
         /\ prep.result.imageSize = prep.image.imageSize
         /\ prep.setBlob => prep.result.imageBlob = dataUrlToBlob(prep.image.imageDataUrl)
         /\ ~prep.setBlob => prep.result = prep.image

\* an image exactly at the limit, passed without a blob, came back with one and
\* without a conversion
C12_Witness ==
  /\ prep.stage = "returned" /\ ~prep.converted
  /\ prep.maxSize # 0 /\ prep.image.imageSize = prep.maxSize
  /\ prep.setBlob /\ prep.image.imageBlob = NoBlob
  /\ prep.result.imageBlob = dataUrlToBlob(prep.image.imageDataUrl)

\* ------------------------------------------------------------- C13
\* C13 (as claimed): with no limit configured, prepareImageForUpload never converts
\* and returns the image unchanged but for its blob, which is made from the data URL
\* exactly when setBlob is requested and the image has none yet; so with setBlob
\* requested the returned image has a blob.
C13_NoLimit ==
  (prep.maxSize = 0 /\ prep.stage = "returned") =>
    /\ ~prep.converted /\ ~prep.threw
    /\ prep.result.imageDataUrl = prep.image.imageDataUrl
    /\ prep.result.imageFilename = prep.image.imageFilename
    /\ prep.result.imageType = prep.image.imageType
    /\ prep.result.imageSize = prep.image.imageSize
    /\ prep.result.imageBlob =
         IF prep.setBlob /\ prep.image.imageBlob = NoBlob
           THEN dataUrlToBlob(prep.image.imageDataUrl)
           ELSE prep.image.imageBlob
    /\ prep.setBlob => prep.result.imageBlob # NoBlob

\* ------------------------------------------------------------- C14
\* the image the image request of run r returned
ImageReturned(r) == trace[r][CHOOSE i \in Idx(r, "imageReturned") : TRUE].image

\* C14: when the asset type is "image", prepareImageForUpload is called on the image
\* the image request returned before searchFn is called, searchFn is handed what the
\* adaptation returned (the converted image when the image is over the limit, the
\* image with its blob made when a limit is configured and the image fits, the image
\* as it is without a limit), and searchFn is not called when the adaptation throws;
\* for another asset type prepareImageForUpload is not called and searchFn is handed
\* the image as the image request returned it.
C14_AdaptBeforeSearch ==
  \A r \in runs :
    /\ \A k \in Idx(r, "searchFn") :
         LET stored == ImageReturned(r)
             given == trace[r][k].image
         IN
           /\ Has(r, "imageReturned") /\ \A i \in Idx(r, "imageReturned") : i < k
           /\ task[r].assetType = "image" =>
                /\ \E j \in Idx(r, "prepareImageForUpload") :
                     j < k /\ trace[r][j].image = stored
                /\ Cardinality(Idx(r, "prepareImageForUpload")) = 1
                /\ IF maxSize[r] # 0 /\ stored.imageSize > maxSize[r]
                     THEN /\ \E j \in Idx(r, "convertProcessedImage") : j < k
                          /\ given \in convertProcessedImage(stored, maxSize[r], TRUE)
                          /\ given # NullImage /\ given # stored
                     ELSE /\ ~Has(r, "convertProcessedImage")
                          /\ given = IF maxSize[r] # 0
                                       THEN [stored EXCEPT !.imageBlob =
                                               dataUrlToBlob(stored.imageDataUrl)]
                                       ELSE stored
           /\ task[r].assetType # "image" =>
                /\ ~Has(r, "prepareImageForUpload") /\ ~Has(r, "convertProcessedImage")
                /\ given = stored
    /\ (err[r] # NoError /\ err[r] = EngineError(getLargeImageMessage(engine[r], maxSize[r]))) =>
         /\ Has(r, "convertProcessedImage")
         /\ ~Has(r, "searchFn")
    /\ (Has(r, "prepareImageForUpload") /\ ~Has(r, "searchFn") /\ Done(r)) =>
         err[r] = EngineError(getLargeImageMessage(engine[r], maxSize[r]))

\* an image over the limit was converted and searchFn was handed the smaller,
\* converted image
C14_Witness ==
  \E r \in runs :
    /\ task[r].assetType = "image"
    /\ \E k \in Idx(r, "searchFn") :
         /\ trace[r][k].image.imageDataUrl = "data:converted"
         /\ trace[r][k].image.imageSize < ImageReturned(r).imageSize

\* the adaptation threw and the run ended without a call of searchFn
C14_WitnessThrows ==
  \E r \in runs :
    /\ Done(r) /\ Has(r, "prepareImageForUpload") /\ ~Has(r, "searchFn")
    /\ thrown[r] = EngineError(getLargeImageMessage(engine[r], maxSize[r]))

\* ------------------------------------------------------------- C15
\* the three conditions of a successful search, on the response received
PinAllThree ==
  /\ pin.httpStatus = 200
  /\ pin.parsed /\ pin.body.status = "success"
  /\ pin.body.hasData /\ Len(pin.body.data) > 0

\* the results are the items of data, in order, each mapped to page, image and text
PinMapped ==
  /\ Len(pin.results) = Len(pin.body.data)
  /\ \A i \in DOMAIN pin.body.data :
       /\ pin.results[i].page = <<"https://pinterest.com/pin/", pin.body.data[i].id, "/">>
       /\ pin.results[i].image = pin.body.data[i].image_large_url
       /\ pin.results[i].text = pin.body.data[i].description

\* C15 (as claimed): once a response is received, searchPinterest returns if and only
\* if the HTTP status is 200, the body's status is "success" and data is a non-empty
\* array, and then the results are the mapped items in order; otherwise it throws the
\* generic Error "search failed".
C15_SuccessElseSearchFailed ==
  (pin.responded /\ pin.stage \in {"returned", "thrown"}) =>
    /\ (pin.stage = "returned") <=> PinAllThree
    /\ pin.stage = "returned" => PinMapped /\ ~pin.threw
    /\ pin.stage = "thrown" => pin.err = Err("Error", Literal("search failed"))

\* C15 (amended): once a response is received and its body is parsed, searchPinterest
\* returns if and only if the HTTP status is 200, the body's status is "success" and
\* data is a non-empty array, and then the results are the mapped items in order;
\* otherwise it throws the generic Error "search failed".  When the body cannot be
\* parsed, it throws the parser's error, which is not typed either.
C15_Pinterest ==
  (pin.responded /\ pin.stage \in {"returned", "thrown"}) =>
    /\ (pin.stage = "returned") <=> PinAllThree
    /\ pin.stage = "returned" => PinMapped /\ ~pin.threw
    /\ pin.stage = "thrown" =>
         /\ pin.threw /\ pin.err.name # "EngineError"
         /\ pin.parsed => pin.err = Err("Error", Literal("search failed"))
         /\ ~pin.parsed => pin.err = JsonError

\* a search returned two different items, mapped in the order of data
C15_Witness ==
  /\ pin.stage = "returned" /\ PinAllThree
  /\ Len(pin.results) = 2 /\ pin.results[1] # pin.results[2]
  /\ pin.results[1].page = <<"https://pinterest.com/pin/", pin.body.data[1].id, "/">>

\* a parsed response with HTTP 200 and items, whose status is not "success", threw
C15_WitnessThrown ==
  /\ pin.stage = "thrown" /\ pin.parsed /\ pin.httpStatus = 200
  /\ pin.body.status # "success" /\ Len(pin.body.data) > 0
  /\ pin.err = Err("Error", Literal("search failed"))

\* ------------------------------------------------------------- C16
\* the storage requests of run r for the key k
RequestsFor(r, k) == { i \in Idx(r, "storageRequest") : trace[r][i].storageId = k }

\* every step recorded under id a precedes every step recorded under id b
Precedes(r, a, b) == \A i \in Idx(r, a), j \in Idx(r, b) : i < j

\* the run did each of the document-load wait, the task request, the image request,
\* the adaptation (and its conversion) and searchFn at most once, each after the one
\* before it completed
C16_NoRetryInOrder ==
  \A r \in runs :
    /\ \A id \in {"documentLoaded", "taskReturned", "imageReturned", "prepareImageForUpload",
                  "convertProcessedImage", "searchFn"} : Cardinality(Idx(r, id)) <= 1
    /\ Cardinality(RequestsFor(r, taskId[r])) <= 1
    /\ Cardinality(Idx(r, "storageRequest")) <= 2
    /\ \A i \in Idx(r, "storageRequest") :
         /\ \E d \in Idx(r, "documentLoaded") : d < i
         /\ trace[r][i].storageId # taskId[r] =>
              /\ trace[r][i].storageId = task[r].imageId
              /\ \E t \in Idx(r, "taskReturned") : t < i
    /\ \A i \in Idx(r, "taskReturned") : \E q \in RequestsFor(r, taskId[r]) : q < i
    /\ \A i \in Idx(r, "imageReturned") : \E q \in RequestsFor(r, task[r].imageId) : q < i
    /\ \A i \in Idx(r, "prepareImageForUpload") : \E q \in Idx(r, "imageReturned") : q < i
    /\ \A i \in Idx(r, "searchFn") : \E q \in Idx(r, "imageReturned") : q < i
    /\ Precedes(r, "prepareImageForUpload", "convertProcessedImage")
    /\ Precedes(r, "prepareImageForUpload", "searchFn")
    /\ Precedes(r, "convertProcessedImage", "searchFn")

\* C16 (as claimed): no operation is retried and the operations run strictly in order;
\* and a run in which the image request, the adaptation or searchFn failed ends
\* rejected with exactly one notification, after which it does nothing.  Stated for
\* the errors whose notification needs no lookup under a missing errorId.
C16_NoRetryFailureSurfacedOnce ==
  /\ C16_NoRetryInOrder
  /\ \A r \in runs :
       (Done(r) /\ Reportable(err[r])
          /\ (Has(r, "imageRequestFailed") \/ AdaptOrSearchThrew(r))) =>
         /\ thrown[r] # NoError
         /\ Cardinality(Notifications(r)) = 1
         /\ trace[r][Len(trace[r])].id = "notification"

\* ------------------------------------------------------------- C17
\* the keys of run r: its taskId and the imageId of its task
OwnKeys(r) == <<taskId[r], task[r].imageId>>

\* C17: of two invocations for different tasks, interleaved in any way, each has its
\* own key list: every storageReceipt a run sends carries exactly that run's taskId
\* and imageId; a run's list is emptied by that run's own receipt and by nothing
\* else, so a run that read its task and ended otherwise than by searchFn resolving
\* has sent its own receipt whatever the other run did; and every notification of a
\* run names that run's engine.
C17_Independent ==
  \A r \in runs :
    /\ \A i \in Receipts(r) : trace[r][i].storageIds = OwnKeys(r)
    /\ Cardinality(Receipts(r)) <= 1
    /\ storageIds[r] # <<>> => storageIds[r] = OwnKeys(r) /\ Has(r, "taskReturned")
    /\ Has(r, "taskReturned") => ((storageIds[r] = <<>>) <=> (Receipts(r) # {}))
    /\ (Done(r) /\ Has(r, "taskReturned") /\ ~Has(r, "searchFnResolved")) =>
         Cardinality(Receipts(r)) = 1
    /\ \A j \in Notifications(r) : trace[r][j].type = <<engine[r], "Error">>
    /\ \A q \in runs \ {r} : taskId[q] # taskId[r]

\* one run has ended with its receipt and its notification sent while the other,
\* for another engine, is in searchFn and still holds its own keys
C17_Witness ==
  \E r \in runs, q \in runs :
    /\ r # q /\ engine[r] # engine[q]
    /\ Done(r) /\ Receipts(r) # {} /\ Notifications(r) # {}
    /\ pc[q] = "search" /\ storageIds[q] = OwnKeys(q) /\ storageIds[q] # <<>>

\* both runs have ended, each with its own receipt sent
C17_WitnessBoth ==
  \A r \in runs :
    /\ Done(r) /\ Cardinality(Receipts(r)) = 1
    /\ \A i \in Receipts(r) : trace[r][i].storageIds[1] = taskId[r]

\* ------------------------------------------------------------- C18
\* the terminal states of a run
Succeeded(r) == Done(r) /\ thrown[r] = NoError /\ Has(r, "searchFnResolved")
Failed(r) == Done(r) /\ thrown[r] # NoError
SessionExpiredState(r) ==
  Done(r) /\ thrown[r] = NoError /\ (Has(r, "taskAbsent") \/ Has(r, "imageAbsent"))

\* every run ends, when every awaited call settles
C18_Terminates == \A r \in RunIds : (pc[r] = "start") ~> Done(r)

\* C18 (as claimed): a run that has ended is in exactly one of the terminal states
\* Succeeded, Failed and SessionExpired; in Failed and in SessionExpired it has
\* emitted a notification, in Succeeded it has emitted none.
C18_TerminalStates ==
  \A r \in runs :
    Done(r) =>
      /\ Cardinality({ st \in {"Succeeded", "Failed", "SessionExpired"} :
                         \/ st = "Succeeded" /\ Succeeded(r)
                         \/ st = "Failed" /\ Failed(r)
                         \/ st = "SessionExpired" /\ SessionExpiredState(r) }) = 1
      /\ (Failed(r) \/ SessionExpiredState(r)) => Notifications(r) # {}
      /\ Succeeded(r) => Notifications(r) = {}

\* ------------------------------------------------------------- C19
\* C19: uploadCallback calls the callback once, with the xhr.  When the callback
\* throws, whether a typed EngineError or not, exactly one notification is sent, with
\* the catalog text of error_engine and the type <engine>Error, never the error's own
\* message, and the callback's error is rethrown; when the callback returns, nothing
\* is sent and nothing is thrown.  No storageReceipt is ever sent.
C19_UploadCallback ==
  /\ Len(upload.args) <= 1
  /\ upload.stage \in {"callback", "returned", "thrown"} => upload.args = <<upload.xhr>>
  /\ upload.stage \in {"idle", "called", "callback"} =>
       upload.sent = <<>> /\ upload.thrown = NoError
  /\ upload.stage = "returned" => upload.sent = <<>> /\ upload.thrown = NoError
  /\ upload.stage = "thrown" =>
       /\ upload.behaviour # NoError /\ upload.thrown = upload.behaviour
       /\ Len(upload.sent) = 1
       /\ upload.sent[1].id = "notification"
       /\ upload.sent[1].errorId = "error_engine"
       /\ upload.sent[1].message = getMessage("error_engine", upload.engine)
       /\ upload.sent[1].message # upload.behaviour.message
       /\ upload.sent[1].type = <<upload.engine, "Error">>
  /\ \A i \in DOMAIN upload.sent : upload.sent[i].id # "storageReceipt"

\* the callback threw a typed error with a message of its own, and the notification
\* sent is the generic one
C19_Witness ==
  /\ upload.stage = "thrown"
  /\ upload.behaviour = EngineError(Literal("engine says no"))
  /\ upload.thrown = upload.behaviour
  /\ Len(upload.sent) = 1 /\ upload.sent[1].errorId = "error_engine"

====
